---- MODULE Spec2Model ----
(***************************************************************************)
(* Model of toronto_bike_share/load_tbs.py: the Toronto Bike Share ETL.    *)
(*                                                                         *)
(*   setup_duckdb -> download_data -> load_data -> remove_csv ->           *)
(*   export_as_parquet                                                     *)
(*                                                                         *)
(* The working directory data/ is a set of file paths and a set of         *)
(* directory paths, both relative to data/ (a path is a tuple of names).   *)
(* The database file data/tbs.db holds the catalog of types and the table  *)
(* tbs_trips, a bag of rows.  A row keeps its "Trip Id" (0 stands for SQL  *)
(* NULL) and one payload value standing for all its other columns.         *)
(*                                                                         *)
(* toronto-bike-share/load_tbs.py is an earlier copy of download_data and  *)
(* load_data (no types, no cleanup, no export); its download loop and its  *)
(* INSERT are the same statements as the ones modelled here.               *)
(***************************************************************************)
EXTENDS Integers, Sequences, FiniteSets, Bags, TLC

\* ------------------------------------------------------------------ bounds
MaxId == 2          \* Trip Ids are 1..MaxId, and NULL
MaxRuns == 2        \* runs of the entry point against the same data/ directory
MaxTable == 3       \* load_data is not called again once tbs_trips holds this many rows

\* ------------------------------------------------------- program constants
YEAR_MAP == <<2021, 2022, 2023, 2024>>      \* keys of YEAR_MAP, in insertion order
REMOVE_FOLDER == {2022, 2023}
BAD_YEAR == 2022

Years == {YEAR_MAP[i] : i \in 1..Len(YEAR_MAP)}

\* f"bikeshare-ridership-{year}"
Folder == (2021 :> "bikeshare-ridership-2021") @@ (2022 :> "bikeshare-ridership-2022")
          @@ (2023 :> "bikeshare-ridership-2023") @@ (2024 :> "bikeshare-ridership-2024")

\* The nested archive of BAD_YEAR, relative to data/.
jank_file == <<Folder[BAD_YEAR], "Bike share ridership 2022-11.zip">>

\* The monthly CSV file every yearly archive ships (one month stands for all).
Csv == (2021 :> "Bike share ridership 2021-01.csv") @@ (2022 :> "Bike share ridership 2022-01.csv")
       @@ (2023 :> "Bike share ridership 2023-01.csv") @@ (2024 :> "Bike share ridership 2024-01.csv")

\* The CSV file inside the nested archive of BAD_YEAR.
NestedCsv == "Bike share ridership 2022-11.csv"

\* A CSV file an archive may ship in a subdirectory of its year-named folder.
DeepCsv == (2021 :> "Bike share ridership 2021-02.csv") @@ (2022 :> "Bike share ridership 2022-02.csv")
           @@ (2023 :> "Bike share ridership 2023-02.csv") @@ (2024 :> "Bike share ridership 2024-02.csv")

CsvNames == {Csv[y] : y \in Years} \cup {DeepCsv[y] : y \in Years} \cup {NestedCsv}

DbFile == "tbs.db"
ParquetFile == "tbs.parquet"

\* Path.suffix of a file name.
Suffix(name) ==
  IF name \in CsvNames THEN ".csv"
  ELSE IF name = jank_file[2] THEN ".zip"
  ELSE IF name = DbFile THEN ".db"
  ELSE ".parquet"

\* The names 'data/Bike share ridership 202*.csv' matches.
GlobNames == CsvNames

\* ------------------------------------------------------------------- rows
NULL == 0
Ids == 1..MaxId
Payloads == {"a", "b"}

\* A line of a CSV file: ok = FALSE is a line read_csv cannot parse
\* (for instance a "Start Time" that does not follow timestampformat).
CsvRows == [id : Ids \cup {NULL}, ver : Payloads, ok : {TRUE}]
           \cup [id : Ids, ver : {"a"}, ok : {FALSE}]

\* An archive member's data rows: none, or one.
FileContents == {{}} \cup {{r} : r \in CsvRows}

TableRow(r) == [id |-> r.id, ver |-> r.ver]

\* ------------------------------------------------------- upstream archives
\* Layouts of a yearly archive: its members at the top level, in the
\* year-named folder, or in the folder with one more file in a subdirectory.
Flat(y) == {<<Csv[y]>>}
InFolder(y) == {<<Folder[y], Csv[y]>>} \cup (IF y = BAD_YEAR THEN {jank_file} ELSE {})
Deep(y) == InFolder(y) \cup {<<Folder[y], "extra", DeepCsv[y]>>}
Layouts(y) == {Flat(y), InFolder(y), Deep(y)}

\* Members of the nested archive, relative to the directory it is extracted to.
NestedEntries == {<<NestedCsv>>}

\* The layout the portal publishes: 2022 and 2023 in a year-named folder.
Published == [y \in Years |-> IF y \in REMOVE_FOLDER THEN InFolder(y) ELSE Flat(y)]

\* ------------------------------------------------------------- file system
Last(p) == p[Len(p)]
Parent(p) == SubSeq(p, 1, Len(p) - 1)

\* Every directory on the way to the paths of P.
DirsOf(P) == UNION {{SubSeq(p, 1, k) : k \in 1..(Len(p) - 1)} : p \in P}

IsUnder(p, d) == Len(p) > Len(d) /\ SubSeq(p, 1, Len(d)) = d

\* ---------------------------------------------------------------- state
VARIABLES
  years,        \* download_data's argument `years`
  unzip,        \* download_data's argument `unzip`
  archive,      \* upstream: year -> members of bikeshare-ridership-<year>.zip
  csvrows,      \* CSV file name -> its rows
  files,        \* files under data/
  dirs,         \* directories under data/
  dpc,          \* position in download_data
  todo,         \* years the for loop has not finished
  resp,         \* the response `r` of requests.get
  requests,     \* year -> number of GET requests sent for it
  catalog,      \* types defined in data/tbs.db
  tableExists,  \* tbs_trips exists
  table,        \* rows of tbs_trips
  lpc,          \* position in load_data
  num_rows,     \* the count the INSERT returned, -1 before any
  unchanged,    \* the CSV inputs are those the last INSERT scanned
  stage,        \* position in __main__
  completed,    \* stages this run of __main__ has completed, in order
  runs,         \* runs of __main__ so far
  threads,      \* the engine's `threads` setting, 0 before setup
  parquet,      \* rows of data/tbs.parquet, in file order
  exports       \* COPY statements executed

vars == <<years, unzip, archive, csvrows, files, dirs, dpc, todo, resp, requests,
          catalog, tableExists, table, lpc, num_rows, unchanged,
          stage, completed, runs, threads, parquet, exports>>

dlvars == <<files, dirs, dpc, todo, resp, requests>>
dbvars == <<catalog, tableExists, table, lpc, num_rows>>
mainvars == <<stage, completed, runs, threads>>
outvars == <<parquet, exports>>
inputs == <<years, unzip, archive, csvrows>>

NoResp == [status |-> 0, zip |-> FALSE]

\* ----------------------------------------------------------- download_data
\* filter(lambda x: x[0] in years, YEAR_MAP.items())
RECURSIVE Requested(_, _)
Requested(ys, i) ==
  IF i > Len(YEAR_MAP) THEN <<>>
  ELSE (IF YEAR_MAP[i] \in ys THEN <<YEAR_MAP[i]>> ELSE <<>>) \o Requested(ys, i + 1)

\* Entry of download_data.
download_data(ys, uz) ==
  /\ dpc' = "fetch"
  /\ todo' = Requested(ys, 1)
  /\ resp' = NoResp

\* The loop body without its `continue`.
AfterExtractNoContinue(uz) == "nested"

\* Where the loop body goes after z.extractall("data").
AfterExtract(uz) == IF ~uz THEN "next" ELSE "nested"

\* `continue`, or the end of the loop body.
NextYear ==
  /\ todo' = Tail(todo)
  /\ dpc' = "fetch"
  /\ resp' = NoResp

\* The for loop is exhausted: download_data returns.
DownloadReturn ==
  /\ dpc = "fetch" /\ todo = <<>>
  /\ dpc' = "returned"
  /\ UNCHANGED <<todo, resp, files, dirs, requests>>
  /\ UNCHANGED <<inputs, dbvars, unchanged, mainvars, outvars>>

\* r = requests.get(url, timeout=60): a connection error or timeout raises;
\* otherwise a response of some status whose body is a zip archive or not.
Fetch ==
  /\ dpc = "fetch" /\ todo # <<>>
  /\ requests' = [requests EXCEPT ![Head(todo)] = @ + 1]
  /\ \/ /\ dpc' = "raised"
        /\ resp' = NoResp
     \/ \E st \in {200, 404}, z \in BOOLEAN :
          /\ resp' = [status |-> st, zip |-> z]
          /\ dpc' = "extract"
  /\ UNCHANGED <<todo, files, dirs>>
  /\ UNCHANGED <<inputs, dbvars, unchanged, mainvars, outvars>>

\* z = ZipFile(io.BytesIO(r.content)); z.extractall("data"); if not unzip: continue
Extract ==
  /\ dpc = "extract"
  /\ IF ~resp.zip
       THEN /\ dpc' = "raised"
            /\ UNCHANGED <<todo, resp, files, dirs>>
       ELSE /\ files' = files \cup archive[Head(todo)]
            /\ dirs' = dirs \cup DirsOf(archive[Head(todo)])
            /\ IF AfterExtract(unzip) = "next"
                 THEN NextYear
                 ELSE dpc' = "nested" /\ UNCHANGED <<todo, resp>>
  /\ UNCHANGED requests
  /\ unchanged' = FALSE
  /\ UNCHANGED <<inputs, dbvars, mainvars, outvars>>

\* if year == BAD_YEAR: extract the nested archive into the year's folder, unlink it.
Nested ==
  /\ dpc = "nested"
  /\ IF Head(todo) # BAD_YEAR
       THEN dpc' = "flatten" /\ UNCHANGED <<files, dirs>>
       ELSE IF jank_file \notin files
         THEN dpc' = "raised" /\ UNCHANGED <<files, dirs>>
         ELSE /\ files' = (files \cup {<<Folder[BAD_YEAR]>> \o e : e \in NestedEntries})
                          \ {jank_file}
              /\ UNCHANGED dirs
              /\ dpc' = "flatten"
  /\ UNCHANGED <<todo, resp, requests>>
  /\ unchanged' = FALSE
  /\ UNCHANGED <<inputs, dbvars, mainvars, outvars>>

\* The first directory os.walk yields: the files directly in `root` are renamed
\* into data/, then Path(root).rmdir(), which raises when `root` still holds a
\* subdirectory.  A directory that does not exist yields nothing.
Flatten ==
  /\ dpc = "flatten"
  /\ LET y == Head(todo)
         root == <<Folder[y]>>
         direct == {p \in files : Parent(p) = root}
         subdirs == {d \in dirs : Parent(d) = root}
     IN IF y \notin REMOVE_FOLDER \/ root \notin dirs
          THEN UNCHANGED <<files, dirs>> /\ NextYear
          ELSE /\ files' = (files \ direct) \cup {<<Last(p)>> : p \in direct}
               /\ IF subdirs # {}
                    THEN dpc' = "raised" /\ UNCHANGED <<dirs, todo, resp>>
                    ELSE dirs' = dirs \ {root} /\ NextYear
  /\ UNCHANGED requests
  /\ unchanged' = FALSE
  /\ UNCHANGED <<inputs, dbvars, mainvars, outvars>>

DownloadStep == DownloadReturn \/ Fetch \/ Extract \/ Nested \/ Flatten

\* -------------------------------------------------- download_data, alone
InitDownload ==
  /\ years \in SUBSET Years
  /\ unzip \in BOOLEAN
  /\ archive \in [Years -> UNION {Layouts(y) : y \in Years}]
  /\ \A y \in Years : archive[y] \in Layouts(y)
  /\ csvrows = [n \in CsvNames |-> {}]
  /\ files = {<<DbFile>>} /\ dirs = {}
  /\ dpc = "fetch" /\ todo = Requested(years, 1) /\ resp = NoResp
  /\ requests = [y \in Years |-> 0]
  /\ catalog = {} /\ tableExists = FALSE /\ table = EmptyBag
  /\ lpc = "idle" /\ num_rows = -1 /\ unchanged = FALSE
  /\ stage = "download" /\ completed = <<"setup">> /\ runs = 1 /\ threads = 2
  /\ parquet = <<>> /\ exports = 0

SpecDownload == InitDownload /\ [][DownloadStep]_vars

\* ---------------------------------------------------------------- load_data
\* a = b in SQL: never true when either side is NULL.
SqlEq(a, b) == a # NULL /\ b # NULL /\ a = b

\* The rows read_csv yields for one file: ignore_errors=true skips the lines
\* that do not parse.
FileBag(rows) == SetToBag({TableRow(r) : r \in {x \in rows : x.ok}})

\* The files 'data/Bike share ridership 202*.csv' matches: files of data/ itself.
GlobFiles(fs) == {Last(p) : p \in {q \in fs : Len(q) = 1 /\ Last(q) \in GlobNames}}

\* read_csv over every matching file, as one relation.
RECURSIVE ReadFiles(_, _)
ReadFiles(ns, rows) ==
  IF ns = {} THEN EmptyBag
  ELSE LET n == CHOOSE x \in ns : TRUE
       IN FileBag(rows[n]) (+) ReadFiles(ns \ {n}, rows)

read_csv(fs, rows) == ReadFiles(GlobFiles(fs), rows)

\* The INSERT without its WHERE NOT EXISTS filter.
NewDataUnfiltered(tbl, nd) == nd

\* SELECT ... FROM new_data WHERE NOT EXISTS (SELECT 1 FROM tbs_trips
\* WHERE tbs_trips."Trip Id" = new_data."Trip Id"), over the table as it is
\* before the statement.
NewData(tbl, nd) ==
  LET keep == {r \in BagToSet(nd) : ~ \E t \in BagToSet(tbl) : SqlEq(t.id, r.id)}
  IN IF keep = {} THEN EmptyBag ELSE [r \in keep |-> nd[r]]

\* INSERT INTO tbs_trips
InsertInto(tbl, new) == tbl (+) new

\* Entry of load_data.
load_data == lpc' = "type_user"

\* CREATE TYPE user: a CatalogException leaves the try block for the handler.
CreateTypeUser ==
  /\ lpc = "type_user"
  /\ IF "user" \in catalog
       THEN lpc' = "table" /\ UNCHANGED catalog
       ELSE lpc' = "type_bike" /\ catalog' = catalog \cup {"user"}
  /\ UNCHANGED <<tableExists, table, num_rows, unchanged>>
  /\ UNCHANGED <<inputs, dlvars, mainvars, outvars>>

\* CREATE TYPE bike, reached only when CREATE TYPE user succeeded.
CreateTypeBike ==
  /\ lpc = "type_bike"
  /\ IF "bike" \in catalog
       THEN UNCHANGED catalog
       ELSE catalog' = catalog \cup {"bike"}
  /\ lpc' = "table"
  /\ UNCHANGED <<tableExists, table, num_rows, unchanged>>
  /\ UNCHANGED <<inputs, dlvars, mainvars, outvars>>

\* CREATE TABLE IF NOT EXISTS tbs_trips (..., "User Type" user, "Model" bike)
CreateTable ==
  /\ lpc = "table"
  /\ IF tableExists
       THEN lpc' = "insert" /\ UNCHANGED tableExists
       ELSE IF {"user", "bike"} \subseteq catalog
         THEN lpc' = "insert" /\ tableExists' = TRUE
         ELSE lpc' = "raised" /\ UNCHANGED tableExists
  /\ UNCHANGED <<catalog, table, num_rows, unchanged>>
  /\ UNCHANGED <<inputs, dlvars, mainvars, outvars>>

\* INSERT INTO tbs_trips SELECT ... ; read_csv raises when no file matches.
Insert ==
  /\ lpc = "insert"
  /\ IF GlobFiles(files) = {}
       THEN lpc' = "raised" /\ UNCHANGED <<table, num_rows, unchanged>>
       ELSE LET new == NewData(table, read_csv(files, csvrows))
            IN /\ table' = InsertInto(table, new)
               /\ num_rows' = BagCardinality(new)
               /\ unchanged' = TRUE
               /\ lpc' = "returned"
  /\ UNCHANGED <<catalog, tableExists>>
  /\ UNCHANGED <<inputs, dlvars, mainvars, outvars>>

LoadStep == CreateTypeUser \/ CreateTypeBike \/ CreateTable \/ Insert

\* ------------------------------------------------------- load_data, alone
\* The two files of data/ the environment writes between loads.
LoadFiles == {Csv[2021], Csv[2024]}

\* A call of load_data.
CallLoad ==
  /\ lpc \in {"idle", "returned", "raised"}
  /\ BagCardinality(table) < MaxTable
  /\ load_data
  /\ UNCHANGED <<catalog, tableExists, table, num_rows, unchanged>>
  /\ UNCHANGED <<inputs, dlvars, mainvars, outvars>>

\* The process is stopped between two statements of load_data; every statement
\* already executed is committed.
LoadInterrupt ==
  /\ lpc \in {"type_bike", "table", "insert"}
  /\ lpc' = "raised"
  /\ UNCHANGED <<catalog, tableExists, table, num_rows, unchanged>>
  /\ UNCHANGED <<inputs, dlvars, mainvars, outvars>>

\* Between loads a CSV file of data/ is written with other rows.
WriteCsv ==
  /\ lpc \in {"idle", "returned", "raised"}
  /\ \E n \in LoadFiles, c \in FileContents :
       /\ <<n>> \notin files \/ csvrows[n] # c
       /\ csvrows' = [csvrows EXCEPT ![n] = c]
       /\ files' = files \cup {<<n>>}
  /\ unchanged' = FALSE
  /\ UNCHANGED <<catalog, tableExists, table, lpc, num_rows>>
  /\ UNCHANGED <<years, unzip, archive, dirs, dpc, todo, resp, requests>>
  /\ UNCHANGED <<mainvars, outvars>>

InitLoad ==
  /\ years = {} /\ unzip = TRUE /\ archive = Published
  /\ csvrows = [n \in CsvNames |-> {}]
  /\ files = {<<DbFile>>} /\ dirs = {}
  /\ dpc = "returned" /\ todo = <<>> /\ resp = NoResp
  /\ requests = [y \in Years |-> 0]
  /\ catalog = {} /\ tableExists = FALSE /\ table = EmptyBag
  /\ lpc = "idle" /\ num_rows = -1 /\ unchanged = FALSE
  /\ stage = "load" /\ completed = <<"setup", "download">> /\ runs = 1 /\ threads = 2
  /\ parquet = <<>> /\ exports = 0

NextLoad == CallLoad \/ LoadStep \/ LoadInterrupt \/ WriteCsv

SpecLoad == InitLoad /\ [][NextLoad]_vars

\* ------------------------------------------------------------- setup_duckdb
\* install_extension, load_extension, SET threads TO 2
setup_duckdb == threads' = 2

\* ---------------------------------------------------------------- remove_csv
\* os.walk("data"): every file below data/ whose suffix is .csv is unlinked.
remove_csv == files' = {p \in files : Suffix(Last(p)) # ".csv"}

\* --------------------------------------------------------- export_as_parquet
\* ORDER BY "Trip Id" DESC
SortKeyDesc(id) == IF id = NULL THEN MaxId + 1 ELSE MaxId - id

\* ORDER BY "Trip Id": ascending, NULL after every value; the order of rows
\* with equal "Trip Id" is not determined.
SortKey(id) == IF id = NULL THEN MaxId + 1 ELSE id

RECURSIVE OrderByTripId(_)
OrderByTripId(tbl) ==
  IF tbl = EmptyBag THEN {<<>>}
  ELSE LET rows == BagToSet(tbl)
           first == {r \in rows : \A x \in rows : SortKey(r.id) <= SortKey(x.id)}
       IN UNION {{<<r>> \o t : t \in OrderByTripId(tbl (-) SetToBag({r}))} : r \in first}

\* COPY (SELECT * FROM tbs_trips ORDER BY "Trip Id") TO "./data/tbs.parquet"
export_as_parquet ==
  /\ parquet' \in OrderByTripId(table)
  /\ files' = files \cup {<<ParquetFile>>}
  /\ exports' = exports + 1

\* ------------------------------------------------------------------ __main__
\* __main__ with remove_csv called before load_data.
StageAfterSwapped(s) ==
  CASE s = "setup" -> "download"
    [] s = "download" -> "cleanup"
    [] s = "cleanup" -> "load"
    [] s = "load" -> "export"
    [] s = "export" -> "log"
    [] s = "log" -> "done"

\* The order of the calls in __main__; "log" is the closing LOGGER.info.
StageAfter(s) ==
  CASE s = "setup" -> "download"
    [] s = "download" -> "load"
    [] s = "load" -> "cleanup"
    [] s = "cleanup" -> "export"
    [] s = "export" -> "log"
    [] s = "log" -> "done"

\* Main reaches the call of stage s.
Enter(s) ==
  /\ IF s = "download" THEN download_data(Years, TRUE) ELSE UNCHANGED <<dpc, todo, resp>>
  /\ IF s = "load" THEN load_data ELSE UNCHANGED lpc

\* Stage s has returned: main goes on to the next call.
Advance(s) ==
  /\ completed' = Append(completed, s)
  /\ stage' = StageAfter(s)
  /\ Enter(StageAfter(s))

MainSetup ==
  /\ stage = "setup"
  /\ setup_duckdb
  /\ Advance("setup")
  /\ UNCHANGED <<inputs, files, dirs, requests, catalog, tableExists, table, num_rows,
                 unchanged, runs, outvars>>

MainDownloadReturned ==
  /\ stage = "download" /\ dpc = "returned"
  /\ Advance("download")
  /\ UNCHANGED <<inputs, files, dirs, requests, catalog, tableExists, table, num_rows,
                 unchanged, runs, threads, outvars>>

MainLoadReturned ==
  /\ stage = "load" /\ lpc = "returned"
  /\ Advance("load")
  /\ UNCHANGED <<inputs, files, dirs, requests, catalog, tableExists, table, num_rows,
                 unchanged, runs, threads, outvars>>

MainRemoveCsv ==
  /\ stage = "cleanup"
  /\ remove_csv
  /\ unchanged' = FALSE
  /\ Advance("cleanup")
  /\ UNCHANGED <<inputs, dirs, requests, catalog, tableExists, table, num_rows,
                 runs, threads, outvars>>

MainExport ==
  /\ stage = "export"
  /\ export_as_parquet
  /\ Advance("export")
  /\ UNCHANGED <<inputs, dirs, requests, catalog, tableExists, table, num_rows,
                 unchanged, runs, threads>>

\* LOGGER.info("Data load complete")
MainLog ==
  /\ stage = "log"
  /\ Advance("log")
  /\ UNCHANGED <<inputs, files, dirs, requests, catalog, tableExists, table, num_rows,
                 unchanged, runs, threads, outvars>>

\* An exception download_data or load_data raised leaves __main__ uncaught.
Propagate ==
  /\ \/ stage = "download" /\ dpc = "raised"
     \/ stage = "load" /\ lpc = "raised"
  /\ stage' = "failed"
  /\ UNCHANGED <<inputs, dlvars, dbvars, unchanged, completed, runs, threads, outvars>>

\* The process is stopped between two steps; what is on disk stays.
Interrupt ==
  /\ stage \in {"setup", "download", "load", "cleanup", "export", "log"}
  /\ stage' = "failed"
  /\ dpc' = IF dpc \in {"fetch", "extract", "nested", "flatten"} THEN "raised" ELSE dpc
  /\ lpc' = IF lpc \in {"type_user", "type_bike", "table", "insert"} THEN "raised" ELSE lpc
  /\ UNCHANGED <<inputs, files, dirs, todo, resp, requests, catalog, tableExists, table,
                 num_rows, unchanged, completed, runs, threads, outvars>>

\* The program is started again: duckdb.connect("data/tbs.db") on the same data/.
Rerun ==
  /\ stage = "failed"
  /\ runs < MaxRuns
  /\ runs' = runs + 1
  /\ stage' = "setup"
  /\ completed' = <<>>
  /\ threads' = 0
  /\ dpc' = "idle" /\ lpc' = "idle" /\ todo' = <<>> /\ resp' = NoResp
  /\ requests' = [y \in Years |-> 0]
  /\ UNCHANGED <<inputs, files, dirs, catalog, tableExists, table, num_rows, unchanged,
                 outvars>>

\* The archives the portal serves: data rows in the 2021 file and in the file
\* of the nested 2022 archive.
Upstream ==
  {[n \in CsvNames |-> IF n = Csv[2021] THEN a ELSE IF n = NestedCsv THEN b ELSE {}] :
     a \in FileContents, b \in FileContents}

Init ==
  /\ years = Years /\ unzip = TRUE /\ archive = Published
  /\ csvrows \in Upstream
  /\ files = {<<DbFile>>} /\ dirs = {}
  /\ dpc = "idle" /\ todo = <<>> /\ resp = NoResp
  /\ requests = [y \in Years |-> 0]
  /\ catalog = {} /\ tableExists = FALSE /\ table = EmptyBag
  /\ lpc = "idle" /\ num_rows = -1 /\ unchanged = FALSE
  /\ stage = "setup" /\ completed = <<>> /\ runs = 1 /\ threads = 0
  /\ parquet = <<>> /\ exports = 0

Next ==
  \/ MainSetup \/ MainDownloadReturned \/ MainLoadReturned \/ MainRemoveCsv
  \/ MainExport \/ MainLog
  \/ DownloadStep \/ LoadStep
  \/ Propagate \/ Interrupt \/ Rerun

Spec == Init /\ [][Next]_vars

\* ------------------------------------------------------------------ claims
\* The rows of tbl whose "Trip Id" is i, as a bag.
WithId(tbl, i) ==
  LET S == {r \in BagToSet(tbl) : r.id = i}
  IN IF S = {} THEN EmptyBag ELSE [r \in S |-> tbl[r]]

TripIds(tbl) == {r.id : r \in BagToSet(tbl)}

\* Every line of every CSV file the load scans.
InputRows(fs, rows) == UNION {rows[n] : n \in GlobFiles(fs)}

RECURSIVE SeqBag(_)
SeqBag(s) == IF s = <<>> THEN EmptyBag ELSE SetToBag({Head(s)}) (+) SeqBag(Tail(s))

InsertDone == lpc = "insert" /\ lpc' = "returned"

\* C1: after any sequence of loads no two rows of tbs_trips have the same
\* (non-NULL) Trip Id.
C1_UniqueTripId == \A i \in Ids : BagCardinality(WithId(table, i)) <= 1

\* C2: a load over the CSV inputs the previous load scanned, unchanged since,
\* inserts and reports zero rows and leaves the row count as it was.
C2_IdempotentLoad ==
  [][(InsertDone /\ unchanged)
       => (num_rows' = 0 /\ BagCardinality(table') = BagCardinality(table))]_vars

\* C3: a response of non-success status makes download_data raise with nothing
\* extracted; once it has raised nothing more is fetched or written; no year is
\* requested twice.
C3_FailedFetchRaises ==
  [][/\ (dpc = "extract" /\ resp.status # 200)
          => (dpc' = "raised" /\ files' = files /\ dirs' = dirs)
     /\ dpc = "raised" => UNCHANGED <<files, dirs, requests>>
     /\ \A y \in Years : requests'[y] <= 1]_vars

\* C4: the fixup of a year of REMOVE_FOLDER leaves every file that was under the
\* year-named folder in data/ itself, and nothing of the folder's directory tree.
C4_Flattened ==
  [][(dpc = "flatten" /\ Head(todo) \in REMOVE_FOLDER)
       => LET root == <<Folder[Head(todo)]>>
          IN /\ \A p \in files : IsUnder(p, root) => <<Last(p)>> \in files'
             /\ \A d \in dirs' : d # root /\ ~IsUnder(d, root)]_vars

\* C5: after the export, data/tbs.parquet holds exactly the rows of tbs_trips,
\* as many as the table has, ascending by Trip Id.
C5_Export ==
  stage \in {"log", "done"} =>
    /\ SeqBag(parquet) = table
    /\ Len(parquet) = BagCardinality(table)
    /\ \A i, j \in 1..Len(parquet) :
         (i < j /\ parquet[i].id # NULL /\ parquet[j].id # NULL)
           => parquet[i].id <= parquet[j].id

\* C5 witness: a second export has replaced the first, with rows of different ids.
C5_Witness ==
  /\ stage = "done" /\ exports >= 2
  /\ \E i, j \in 1..Len(parquet) :
       i < j /\ parquet[i].id # NULL /\ parquet[i].id < parquet[j].id

\* What a load must leave of the table, given the identifiers the inputs bring.
AppendOnly(ids) ==
  /\ table \sqsubseteq table'
  /\ InsertDone =>
       /\ \A i \in TripIds(table) \ {NULL} : WithId(table', i) = WithId(table, i)
       /\ TripIds(table') = TripIds(table) \cup ids

\* C6 (as amended): a load only appends, the rows of an identifier already in
\* the table stay the only rows of it, and the identifiers after the load are
\* those before it and those of the input rows that parse.
C6_AppendOnly ==
  [][AppendOnly({r.id : r \in {x \in InputRows(files, csvrows) : x.ok}})]_vars

\* C6 (as claimed): ... and the identifiers after the load are those before it
\* and those of the inputs.
C6_AsClaimed ==
  [][AppendOnly({r.id : r \in InputRows(files, csvrows)})]_vars

\* C6 witness: a load has returned whose input carries an identifier of the
\* table with another payload, and the table has only the earlier row.
C6_Witness ==
  /\ lpc = "returned" /\ unchanged
  /\ \E r \in InputRows(files, csvrows) :
       /\ r.ok /\ r.id # NULL
       /\ ~BagIn(TableRow(r), table)
       /\ \E t \in BagToSet(table) : t.id = r.id

\* The requested years the loop has finished.
Processed == {y \in years : \A i \in 1..Len(todo) : todo[i] # y}

\* C7: with unzip false no fixup step is reached: data/ holds exactly what the
\* archives of the finished years hold (nested archive and year-named folders
\* included), and on return every requested year was fetched once and extracted.
C7_UnzipFalse ==
  ~unzip =>
    /\ dpc \notin {"nested", "flatten"}
    /\ files = {<<DbFile>>} \cup UNION {archive[y] : y \in Processed}
    /\ dirs = UNION {DirsOf(archive[y]) : y \in Processed}
    /\ dpc = "returned" => (Processed = years /\ \A y \in years : requests[y] = 1)

\* C7 witness: download_data(unzip=false) has returned for 2022 and 2023 in
\* folders; the nested archive and both folders are there.
C7_Witness ==
  /\ ~unzip /\ dpc = "returned" /\ REMOVE_FOLDER \subseteq years
  /\ jank_file \in files
  /\ \A y \in REMOVE_FOLDER : <<Folder[y]>> \in dirs

\* C8: when the type-creation step is over both types are defined.
C8_BothTypes == lpc \in {"table", "insert"} => {"user", "bike"} \subseteq catalog

\* The names of the CSV files anywhere below data/.
CsvOnDisk(fs) == {Last(p) : p \in {q \in fs : Suffix(Last(q)) = ".csv"}}

StageOrder == <<"setup", "download", "load", "cleanup", "export", "log">>

\* C9: the stages of a run complete in the fixed order; CSV files are deleted
\* only by the cleanup that follows a load that returned; the export is written
\* only after the cleanup; the table changes only in the load stage; after an
\* uncaught error nothing more is written.
C9_StageOrder ==
  /\ [](/\ Len(completed) <= Len(StageOrder)
        /\ completed = SubSeq(StageOrder, 1, Len(completed))
        /\ stage \notin {"failed", "done"} => stage = StageOrder[Len(completed) + 1]
        /\ stage = "done" => completed = StageOrder)
  /\ [][/\ ~(CsvOnDisk(files) \subseteq CsvOnDisk(files'))
             => (stage = "cleanup" /\ lpc = "returned"
                 /\ completed = SubSeq(StageOrder, 1, 3))
        /\ (parquet' # parquet \/ exports' # exports)
             => (stage = "export" /\ completed = SubSeq(StageOrder, 1, 4))
        /\ table' # table => (stage = "load" /\ completed = SubSeq(StageOrder, 1, 2))
        /\ stage = "failed"
             => UNCHANGED <<files, dirs, catalog, tableExists, table, parquet>>]_vars

\* C9 witness: the load raised; the run has failed with its CSV files on disk.
C9_Witness ==
  /\ stage = "failed" /\ lpc = "raised"
  /\ completed = SubSeq(StageOrder, 1, 2)
  /\ GlobFiles(files) # {}

\* The table of a single uninterrupted run: every parsed row of the files the
\* published archives put into data/.
SingleRunTable ==
  read_csv({<<Csv[y]>> : y \in Years} \cup {<<NestedCsv>>}, csvrows)

\* C10: a run that completes, after aborted runs or not, ends with the table
\* and the export of a single uninterrupted run.
C10_RerunSafe ==
  stage = "done" => (table = SingleRunTable /\ SeqBag(parquet) = SingleRunTable)

====
